---- MODULE Spec2Model ----
(***************************************************************************)
(* Model of src/scripts/transform.py: a Lambda handler that reads a batch  *)
(* of Kinesis records, validates each payload, looks its event_uuid up in  *)
(* DynamoDB, enriches it, writes it to S3 and records the event_uuid in    *)
(* DynamoDB, and returns a summary of the batch.                           *)
(*                                                                         *)
(* Python values are records [t, n, s]: t is the runtime type, n the       *)
(* number of an int / bool / float (a float is kept in tenths), s the      *)
(* characters of a str.  Strings are sequences of one-character strings.   *)
(***************************************************************************)
EXTENDS Integers, Sequences, FiniteSets, TLC

(* ------------------------------------------------------------------ *)
(* Python values                                                       *)
(* ------------------------------------------------------------------ *)

Absent == [t |-> "absent", n |-> 0, s |-> <<>>]
NoneV == [t |-> "none", n |-> 0, s |-> <<>>]
IntV(k) == [t |-> "int", n |-> k, s |-> <<>>]
BoolV(b) == [t |-> "bool", n |-> IF b THEN 1 ELSE 0, s |-> <<>>]
FloatV(tenths) == [t |-> "float", n |-> tenths, s |-> <<>>]
StrV(chars) == [t |-> "str", n |-> 0, s |-> chars]

DigitChars == <<"0", "1", "2", "3", "4", "5", "6", "7", "8", "9">>

IsDigit(c) == \E i \in 1..10 : DigitChars[i] = c

DigitVal(c) == (CHOOSE i \in 1..10 : DigitChars[i] = c) - 1

IsSpace(c) == c = " "

RECURSIVE LStrip(_)
LStrip(s) == IF s # <<>> /\ IsSpace(Head(s)) THEN LStrip(Tail(s)) ELSE s

RECURSIVE RStrip(_)
RStrip(s) ==
  IF s # <<>> /\ IsSpace(s[Len(s)]) THEN RStrip(SubSeq(s, 1, Len(s) - 1)) ELSE s

Strip(s) == RStrip(LStrip(s))

(* digit ('_'? digit)*, the body of a Python integer literal *)
RECURSIVE IsDigitRun(_)
IsDigitRun(s) ==
  /\ s # <<>>
  /\ IsDigit(Head(s))
  /\ \/ Len(s) = 1
     \/ IsDigitRun(Tail(s))
     \/ Len(s) >= 3 /\ s[2] = "_" /\ IsDigitRun(SubSeq(s, 3, Len(s)))

RECURSIVE DigitRunVal(_, _)
DigitRunVal(s, acc) ==
  IF s = <<>> THEN acc
  ELSE IF Head(s) = "_" THEN DigitRunVal(Tail(s), acc)
  ELSE DigitRunVal(Tail(s), acc * 10 + DigitVal(Head(s)))

(* str(n) of an int *)
RECURSIVE NatStr(_)
NatStr(k) == IF k < 10 THEN <<DigitChars[k + 1]>>
             ELSE NatStr(k \div 10) \o <<DigitChars[(k % 10) + 1]>>

PyStr(k) == IF k < 0 THEN <<"-">> \o NatStr(0 - k) ELSE NatStr(k)

(* int(v): [exc |-> "none" | "ValueError" | "TypeError", val |-> the int] *)
PyIntOfStr(chars) ==
  LET body == Strip(chars)
      signed == body # <<>> /\ Head(body) \in {"+", "-"}
      digits == IF signed THEN Tail(body) ELSE body
  IN  IF IsDigitRun(digits)
      THEN [exc |-> "none",
            val |-> IF signed /\ Head(body) = "-"
                    THEN 0 - DigitRunVal(digits, 0) ELSE DigitRunVal(digits, 0)]
      ELSE [exc |-> "ValueError", val |-> 0]

PyInt(v) ==
  CASE v.t \in {"int", "bool"} -> [exc |-> "none", val |-> v.n]
    [] v.t = "float" ->
         [exc |-> "none",
          val |-> IF v.n >= 0 THEN v.n \div 10 ELSE 0 - ((0 - v.n) \div 10)]
    [] v.t = "str" -> PyIntOfStr(v.s)
    [] OTHER -> [exc |-> "TypeError", val |-> 0]

(* isinstance(v, int): bool is a subclass of int *)
IsInstanceInt(v) == v.t \in {"int", "bool"}

(* ------------------------------------------------------------------ *)
(* datetime.utcfromtimestamp, isoformat and strftime("%Y/%m/%d")       *)
(* ------------------------------------------------------------------ *)

SecondsPerDay == 86400

(* proleptic Gregorian date of a day number counted from 1970-01-01 *)
CivilFromDays(days) ==
  LET z == days + 719468
      era == z \div 146097
      doe == z - era * 146097
      yoe == (doe - (doe \div 1460) + (doe \div 36524) - (doe \div 146096)) \div 365
      doy == doe - (365 * yoe + (yoe \div 4) - (yoe \div 100))
      mp == (5 * doy + 2) \div 153
      d == doy - ((153 * mp + 2) \div 5) + 1
      m == IF mp < 10 THEN mp + 3 ELSE mp - 9
  IN  [year |-> yoe + era * 400 + (IF m <= 2 THEN 1 ELSE 0), month |-> m, day |-> d]

UtcFromTimestamp(ts) ==
  LET date == CivilFromDays(ts \div SecondsPerDay)
      secs == ts % SecondsPerDay
  IN  [year |-> date.year, month |-> date.month, day |-> date.day,
       hour |-> secs \div 3600, minute |-> (secs % 3600) \div 60, second |-> secs % 60]

Pad2(k) == IF k < 10 THEN <<"0">> \o NatStr(k) ELSE NatStr(k)

Pad4(k) ==
  IF k < 10 THEN <<"0", "0", "0">> \o NatStr(k)
  ELSE IF k < 100 THEN <<"0", "0">> \o NatStr(k)
  ELSE IF k < 1000 THEN <<"0">> \o NatStr(k)
  ELSE NatStr(k)

IsoFormat(dt) ==
  Pad4(dt.year) \o <<"-">> \o Pad2(dt.month) \o <<"-">> \o Pad2(dt.day) \o <<"T">>
    \o Pad2(dt.hour) \o <<":">> \o Pad2(dt.minute) \o <<":">> \o Pad2(dt.second)

StrftimeYmd(dt) ==
  Pad4(dt.year) \o <<"/">> \o Pad2(dt.month) \o <<"/">> \o Pad2(dt.day)

(* ------------------------------------------------------------------ *)
(* Payloads                                                            *)
(* ------------------------------------------------------------------ *)

(* CONFIG["required_fields"] *)
required_fields == <<"event_name", "created_at", "event_uuid">>

(* a decoded payload: a key that the dict does not hold is Absent *)
Payload(name, created, uuid) ==
  [event_name |-> name, created_at |-> created, event_uuid |-> uuid,
   created_datetime |-> Absent, event_type |-> Absent, event_subtype |-> Absent]

NoPayload == Payload(Absent, Absent, Absent)

(* payload.get(field) taken for `field in payload`: a key whose value is
   0, "" or None counts as missing *)
HasKeyTruthy(p, field) ==
  p[field] \notin {Absent, NoneV, IntV(0), BoolV(FALSE), StrV(<<>>)}

(* `field in payload` *)
HasKey(p, field) == p[field] # Absent

(* a Kinesis record: record["kinesis"]["data"] is JSON text or is not *)
Json(p) == [json |-> TRUE, obj |-> p]
Malformed == [json |-> FALSE, obj |-> NoPayload]

(* json.loads(record["kinesis"]["data"]) *)
JsonLoads(record) ==
  IF record.json THEN [exc |-> "none", val |-> record.obj]
  ELSE [exc |-> "JSONDecodeError", val |-> NoPayload]

(* ------------------------------------------------------------------ *)
(* validate_event                                                      *)
(* ------------------------------------------------------------------ *)

(* validate_event without the isinstance check of lines 53-55 *)
validate_event_without_created_at(p) ==
  IF ~ \A i \in 1..Len(required_fields) : HasKey(p, required_fields[i])
  THEN [ret |-> FALSE, exc |-> "none", why |-> "missing", payload |-> p]
  ELSE LET coerced == PyInt(p.event_uuid)
       IN  CASE coerced.exc = "none" ->
                  [ret |-> TRUE, exc |-> "none", why |-> "none",
                   payload |-> [p EXCEPT !.event_uuid = IntV(coerced.val)]]
             [] coerced.exc = "ValueError" ->
                  [ret |-> FALSE, exc |-> "none", why |-> "event_uuid",
                   payload |-> p]
             [] OTHER ->
                  [ret |-> FALSE, exc |-> coerced.exc, why |-> "event_uuid",
                   payload |-> p]

(* [ret, exc, why, payload]: the returned bool, the exception that
   escapes ("none" when none does), the check that failed, and the
   payload as validate_event leaves it (event_uuid coerced in place) *)
validate_event(p) ==
  IF ~ \A i \in 1..Len(required_fields) : HasKey(p, required_fields[i])
  THEN [ret |-> FALSE, exc |-> "none", why |-> "missing", payload |-> p]
  ELSE IF ~ IsInstanceInt(p.created_at)
  THEN [ret |-> FALSE, exc |-> "none", why |-> "created_at", payload |-> p]
  ELSE LET coerced == PyInt(p.event_uuid)
       IN  CASE coerced.exc = "none" ->
                  [ret |-> TRUE, exc |-> "none", why |-> "none",
                   payload |-> [p EXCEPT !.event_uuid = IntV(coerced.val)]]
             [] coerced.exc = "ValueError" ->
                  [ret |-> FALSE, exc |-> "none", why |-> "event_uuid",
                   payload |-> p]
             [] OTHER ->
                  [ret |-> FALSE, exc |-> coerced.exc, why |-> "event_uuid",
                   payload |-> p]

(* ------------------------------------------------------------------ *)
(* check_duplicate and the DynamoDB table                              *)
(* ------------------------------------------------------------------ *)

(* a get_item key that put_item never writes: the number typed 'N' *)
DuplicateKeyAsNumber(event_uuid) == <<"N">> \o PyStr(event_uuid.n)

(* Key={'event_uuid': {'S': str(event_uuid)}} of get_item *)
DuplicateKey(event_uuid) == PyStr(event_uuid.n)

(* a get_item that never returns an item *)
ItemInResponseNever(items, key) == FALSE

(* 'Item' in response *)
ItemInResponse(items, key) == key \in items

(* a put_item key that get_item never asks for: the number typed 'N' *)
RecordKeyAsNumber(p) == <<"N">> \o PyStr(p.event_uuid.n)

(* Item={'event_uuid': {'S': str(payload["event_uuid"])}} of put_item *)
RecordKey(p) == PyStr(p.event_uuid.n)

(* a put_item whose item is in the table although the call raised *)
TableAfterPutItemDespiteError(items, key, ok) == items \cup {key}

(* the table after put_item: a call that fails leaves no item behind *)
TableAfterPutItem(items, key, ok) == IF ok THEN items \cup {key} ELSE items

(* ------------------------------------------------------------------ *)
(* enrich_and_store_event: enrichment and the S3 key                   *)
(* ------------------------------------------------------------------ *)

(* chars.split(sep): the list of parts *)
RECURSIVE SplitFrom(_, _, _)
SplitFrom(chars, sep, part) ==
  IF chars = <<>> THEN <<part>>
  ELSE IF Head(chars) = sep THEN <<part>> \o SplitFrom(Tail(chars), sep, <<>>)
  ELSE SplitFrom(Tail(chars), sep, Append(part, Head(chars)))

Split(chars, sep) == SplitFrom(chars, sep, <<>>)

(* event_parts[0], event_parts[1] if len(event_parts) > 1 else None *)
EventType(event_parts) == StrV(event_parts[1])

EventSubtype(event_parts) ==
  IF Len(event_parts) > 1 THEN StrV(event_parts[2]) ELSE NoneV

(* f'{value}' of a str or None *)
Format(v) == IF v.t = "none" THEN <<"N", "o", "n", "e">> ELSE v.s

(* a file_path that leaves event_uuid out: date/type/subtype.json *)
FilePathWithoutUuid(p) ==
  (CHOOSE ymd \in {StrftimeYmd(dt) : dt \in {UtcFromTimestamp(p.created_at.n)}} : TRUE) \o <<"/">>
    \o Format(p.event_type) \o <<"/">> \o Format(p.event_subtype)
    \o <<".", "j", "s", "o", "n">>

(* file_path *)
FilePath(p) ==
  (CHOOSE ymd \in {StrftimeYmd(dt) : dt \in {UtcFromTimestamp(p.created_at.n)}} : TRUE) \o <<"/">>
    \o Format(p.event_type) \o <<"/">> \o Format(p.event_subtype)
    \o <<"/">> \o PyStr(p.event_uuid.n) \o <<".", "j", "s", "o", "n">>

(* line 96: utcfromtimestamp computed once, then isoformat *)
CreatedDatetime(p) ==
  CHOOSE iso \in {IsoFormat(dt) : dt \in {UtcFromTimestamp(p.created_at.n)}} : TRUE

(* lines 96-98: the three derived fields *)
Enriched(p) ==
  [p EXCEPT
     !.created_datetime = StrV(CreatedDatetime(p)),
     !.event_type = EventType(Split(p.event_name.s, ":")),
     !.event_subtype = EventSubtype(Split(p.event_name.s, ":"))]

(* line 101, on the payload as lines 96-98 left it *)
WithFilePath(enriched) ==
  [exc |-> "none", payload |-> enriched, file_path |-> FilePath(enriched)]

(* lines 96-101: [exc, payload, file_path]; payload["event_name"].split
   raises AttributeError when event_name is not a str, after
   created_datetime was set *)
Enrich(p) ==
  IF p.event_name.t # "str"
  THEN [exc |-> "AttributeError",
        payload |-> [p EXCEPT
          !.created_datetime = StrV(CreatedDatetime(p))],
        file_path |-> <<>>]
  ELSE CHOOSE result \in {WithFilePath(enriched) : enriched \in {Enriched(p)}} : TRUE

(* a put_object that returns without the object being kept *)
BucketAfterPutObjectLost(objects, key, body, ok) == objects

(* the bucket after put_object, Key -> Body: a call that fails writes nothing *)
BucketAfterPutObject(objects, key, body, ok) ==
  IF ok THEN [k \in DOMAIN objects \cup {key} |-> IF k = key THEN body ELSE objects[k]]
  ELSE objects

(* ------------------------------------------------------------------ *)
(* State                                                               *)
(* ------------------------------------------------------------------ *)

(* Lambda invocations: one in Spec, two that may overlap in ConcSpec *)
Workers == {1, 2}

VARIABLES
  table,             (* EventsTable: the set of event_uuid keys it holds *)
  bucket,            (* the S3 bucket: object key -> body *)
  pc,                (* pc[w]: where invocation w stands *)
  records,           (* records[w]: event["Records"] *)
  processed_events,  (* processed_events[w]: the bools collected so far *)
  payload,           (* payload[w]: the payload of the record in progress *)
  response,          (* response[w]: what lambda_handler returned *)
  results,           (* results[w]: per record, how process_event ended *)
  calls,             (* calls[w]: the boto3 calls made for the record in progress *)
  overlapped         (* two invocations stood between check and record of one key *)

vars == <<table, bucket, pc, records, processed_events, payload, response,
          results, calls, overlapped>>

NoResponse ==
  [status |-> "none", total_events |-> 0, successfully_processed |-> 0,
   success_rate |-> [num |-> 0, den |-> 1]]

Init ==
  /\ table = {}
  /\ bucket = <<>>
  /\ pc = [w \in Workers |-> "idle"]
  /\ records = [w \in Workers |-> <<>>]
  /\ processed_events = [w \in Workers |-> <<>>]
  /\ payload = [w \in Workers |-> NoPayload]
  /\ response = [w \in Workers |-> NoResponse]
  /\ results = [w \in Workers |-> <<>>]
  /\ calls = [w \in Workers |-> <<>>]
  /\ overlapped = FALSE

(* ------------------------------------------------------------------ *)
(* process_event: control flow                                         *)
(* ------------------------------------------------------------------ *)

(* process_event without its except clause *)
OnExceptionPropagate == "propagate"

(* lines 129-131: `except Exception` logs and returns False; the
   alternative, "propagate", would end lambda_handler with the exception *)
OnException == "return_false"

(* check_duplicate returning False whatever get_item found *)
AfterGetItemIgnoringItem(ok, found) == IF ~ok THEN "raise" ELSE "continue"

(* lines 75-83 and 124-125: what follows get_item *)
AfterGetItem(ok, found) ==
  IF ~ok THEN "raise" ELSE IF found THEN "return_false" ELSE "continue"

(* a put_object failure that is caught and passed over *)
AfterPutObjectSwallowed(ok) == "continue"

(* line 104: what follows put_object *)
AfterPutObject(ok) == IF ok THEN "continue" ELSE "raise"

(* a put_item failure that is caught and passed over *)
AfterPutItemSwallowed(ok) == "return_true"

(* lines 107-110 and 128: what follows put_item *)
AfterPutItem(ok) == IF ok THEN "return_true" ELSE "raise"

(* a boto3 call as the record in progress made it: res is "error" when it
   raised, "found" / "missing" for a get_item, "ok" for a write *)
Call(op, key, res) == [op |-> op, key |-> key, res |-> res]

(* process_event returns ret: the bool joins processed_events and the
   loop of line 145 moves to the next record *)
Return(w, ret, outcome, made) ==
  /\ processed_events' = [processed_events EXCEPT ![w] = Append(@, ret)]
  /\ results' = [results EXCEPT ![w] = Append(@, [outcome |-> outcome, calls |-> made])]
  /\ calls' = [calls EXCEPT ![w] = <<>>]
  /\ pc' = [pc EXCEPT ![w] = "loop"]

(* an exception reaches the except clause of process_event *)
Raise(w, made) ==
  IF OnException = "return_false"
  THEN Return(w, FALSE, "error", made)
  ELSE /\ pc' = [pc EXCEPT ![w] = "crashed"]
       /\ calls' = [calls EXCEPT ![w] = made]
       /\ UNCHANGED <<processed_events, results>>

(* the outcome of a record that validate_event turned down *)
Rejection(why) == IF why = "missing" THEN "rejected_incomplete" ELSE "rejected_invalid"

InWindow(w, key) ==
  /\ pc[w] \in {"enrich_and_store", "put_item"}
  /\ RecordKey(payload[w]) = key

(* ------------------------------------------------------------------ *)
(* Actions                                                             *)
(* ------------------------------------------------------------------ *)

(* lambda_handler is invoked with event["Records"], one of batches *)
LambdaInvoke(w, batches) ==
  /\ pc[w] = "idle"
  /\ \E batch \in batches : records' = [records EXCEPT ![w] = batch]
  /\ processed_events' = [processed_events EXCEPT ![w] = <<>>]
  /\ results' = [results EXCEPT ![w] = <<>>]
  /\ pc' = [pc EXCEPT ![w] = "loop"]
  /\ UNCHANGED <<table, bucket, payload, response, calls, overlapped>>

(* lines 122-124: json.loads and validate_event of the next record *)
Validate(w) ==
  /\ pc[w] = "loop"
  /\ Len(processed_events[w]) < Len(records[w])
  /\ \E decoded \in {JsonLoads(records[w][Len(processed_events[w]) + 1])} :
       IF decoded.exc # "none"
       THEN Raise(w, <<>>) /\ UNCHANGED payload
       ELSE \E checked \in {validate_event(decoded.val)} :
              IF checked.exc # "none"
              THEN Raise(w, <<>>) /\ UNCHANGED payload
              ELSE IF ~checked.ret
              THEN Return(w, FALSE, Rejection(checked.why), <<>>) /\ UNCHANGED payload
              ELSE /\ payload' = [payload EXCEPT ![w] = checked.payload]
                   /\ pc' = [pc EXCEPT ![w] = "check_duplicate"]
                   /\ calls' = [calls EXCEPT ![w] = <<>>]
                   /\ UNCHANGED <<processed_events, results>>
  /\ UNCHANGED <<table, bucket, records, response, overlapped>>

(* lines 124-125 and 75-83: check_duplicate(payload['event_uuid']) *)
CheckDuplicate(w) ==
  /\ pc[w] = "check_duplicate"
  /\ \E ok \in BOOLEAN :
       LET key == DuplicateKey(payload[w].event_uuid)
           found == ItemInResponse(table, key)
           made == Append(calls[w], Call("get_item", key,
                     IF ~ok THEN "error" ELSE IF found THEN "found" ELSE "missing"))
           then == AfterGetItem(ok, found)
       IN  CASE then = "raise" -> Raise(w, made) /\ UNCHANGED overlapped
             [] then = "return_false" ->
                  Return(w, FALSE, "rejected_duplicate", made) /\ UNCHANGED overlapped
             [] OTHER ->
                  /\ pc' = [pc EXCEPT ![w] = "enrich_and_store"]
                  /\ calls' = [calls EXCEPT ![w] = made]
                  /\ overlapped' =
                       (overlapped \/ \E v \in Workers \ {w} :
                                        InWindow(v, RecordKey(payload[w])))
                  /\ UNCHANGED <<processed_events, results>>
  /\ UNCHANGED <<table, bucket, records, payload, response>>

(* lines 96-104: enrichment, file_path and s3_client.put_object *)
PutObject(w) ==
  /\ pc[w] = "enrich_and_store"
  /\ \E enriched \in {Enrich(payload[w])} :
       /\ payload' = [payload EXCEPT ![w] = enriched.payload]
       /\ IF enriched.exc # "none"
          THEN Raise(w, calls[w]) /\ UNCHANGED bucket
          ELSE \E ok \in BOOLEAN :
                 LET made == Append(calls[w], Call("put_object", enriched.file_path,
                                                   IF ok THEN "ok" ELSE "error"))
                 IN  /\ bucket' = BucketAfterPutObject(
                                     bucket, enriched.file_path, enriched.payload, ok)
                     /\ IF AfterPutObject(ok) = "raise"
                        THEN Raise(w, made)
                        ELSE /\ pc' = [pc EXCEPT ![w] = "put_item"]
                             /\ calls' = [calls EXCEPT ![w] = made]
                             /\ UNCHANGED <<processed_events, results>>
  /\ UNCHANGED <<table, records, response, overlapped>>

(* lines 107-110 and 128: dynamodb_client.put_item, then return True *)
PutItem(w) ==
  /\ pc[w] = "put_item"
  /\ \E ok \in BOOLEAN :
       LET key == RecordKey(payload[w])
           made == Append(calls[w], Call("put_item", key, IF ok THEN "ok" ELSE "error"))
       IN  /\ table' = TableAfterPutItem(table, key, ok)
           /\ IF AfterPutItem(ok) = "raise"
              THEN Raise(w, made)
              ELSE Return(w, TRUE, "stored", made)
  /\ UNCHANGED <<bucket, records, payload, response, overlapped>>

(* sum(processed_events) *)
RECURSIVE Sum(_)
Sum(bools) == IF bools = <<>> THEN 0 ELSE (IF Head(bools) THEN 1 ELSE 0) + Sum(Tail(bools))

(* the rate without the `if event["Records"] else 0` *)
SuccessRateUnguarded(success_count, total) ==
  [num |-> success_count * 100, den |-> total]

(* (success_count / len(event["Records"])) * 100 if event["Records"] else 0,
   kept exact as the fraction num / den *)
SuccessRate(success_count, total) ==
  IF total # 0 THEN [num |-> success_count * 100, den |-> total]
  ELSE [num |-> 0, den |-> 1]

(* a summary whose status tells whether a record failed *)
SummaryWithFailureStatus(batch, bools) ==
  [status |-> IF Sum(bools) < Len(batch) THEN "partial" ELSE "complete",
   total_events |-> Len(batch),
   successfully_processed |-> Sum(bools),
   success_rate |-> SuccessRate(Sum(bools), Len(batch))]

(* lines 146-159: the metrics and the returned dict *)
Summary(batch, bools) ==
  [status |-> "complete",
   total_events |-> Len(batch),
   successfully_processed |-> Sum(bools),
   success_rate |-> SuccessRate(Sum(bools), Len(batch))]

(* lines 146-159, once the comprehension of line 145 is through *)
LambdaReturn(w) ==
  /\ pc[w] = "loop"
  /\ Len(processed_events[w]) = Len(records[w])
  /\ response' = [response EXCEPT ![w] = Summary(records[w], processed_events[w])]
  /\ pc' = [pc EXCEPT ![w] = "returned"]
  /\ UNCHANGED <<table, bucket, records, processed_events, payload, results, calls,
                 overlapped>>

Step(w) ==
  \/ Validate(w)
  \/ CheckDuplicate(w)
  \/ PutObject(w)
  \/ PutItem(w)
  \/ LambdaReturn(w)

(* ------------------------------------------------------------------ *)
(* Inputs                                                              *)
(* ------------------------------------------------------------------ *)

MaxBatch == 3
MaxConcBatch == 1

OrderRefund == StrV(<<"o", ":", "r">>)
At == IntV(1700000000)

Good7 == Json(Payload(OrderRefund, At, IntV(7)))
Good007 == Json(Payload(OrderRefund, At, StrV(<<"0", "0", "7">>)))
Good8 == Json(Payload(OrderRefund, At, IntV(8)))
NameNotStr == Json(Payload(IntV(5), At, IntV(7)))
CreatedAtStr == Json(Payload(OrderRefund, StrV(<<"1">>), IntV(7)))
CreatedAtBool == Json(Payload(OrderRefund, BoolV(TRUE), IntV(8)))
UuidNotNumeric == Json(Payload(OrderRefund, At, StrV(<<"x">>)))
UuidNone == Json(Payload(OrderRefund, At, NoneV))
UuidMissing == Json(Payload(OrderRefund, At, Absent))

Inputs == {Good7, Good007, NameNotStr, CreatedAtStr, CreatedAtBool,
           UuidNotNumeric, UuidNone, UuidMissing, Malformed}

ConcInputs == {Good7, Good007, Good8}

Batches(inputs, n) == UNION {[1..k -> inputs] : k \in 0..n}

(* one invocation, its records processed one after the other *)
Next ==
  \/ LambdaInvoke(1, Batches(Inputs, MaxBatch))
  \/ Step(1)

Spec == Init /\ [][Next]_vars

(* two invocations that share the table and the bucket *)
ConcNext ==
  \/ \E w \in Workers : LambdaInvoke(w, Batches(ConcInputs, MaxConcBatch))
  \/ \E w \in Workers : Step(w)

ConcSpec == Init /\ [][ConcNext]_vars

(* ------------------------------------------------------------------ *)
(* Reading the state                                                   *)
(* ------------------------------------------------------------------ *)

(* the records of invocation w that process_event has finished *)
Done(w) == 1..Len(results[w])

Outcome(w, i) == results[w][i].outcome
Ret(w, i) == processed_events[w][i]
Made(w, i) == results[w][i].calls

Decodes(record) == JsonLoads(record).exc = "none"

Complete(record) ==
  /\ Decodes(record)
  /\ HasKey(record.obj, "event_name")
  /\ HasKey(record.obj, "created_at")
  /\ HasKey(record.obj, "event_uuid")

FieldValid(record) ==
  /\ record.obj.created_at.t \in {"int", "bool"}
  /\ PyInt(record.obj.event_uuid).exc = "none"

(* the canonical key of a complete and field-valid record *)
KeyOf(record) == PyStr(PyInt(record.obj.event_uuid).val)

MadeOp(made, op) == {k \in 1..Len(made) : made[k].op = op}
Wrote(made) == MadeOp(made, "put_object") \cup MadeOp(made, "put_item") # {}
Failed(made, op) == \E k \in MadeOp(made, op) : made[k].res = "error"
Succeeded(made, op) == \E k \in MadeOp(made, op) : made[k].res = "ok"
NoCallFailed(made) == \A k \in 1..Len(made) : made[k].res # "error"

(* record i of invocation w put its key into the table *)
Recorded(w, i, key) ==
  \E k \in MadeOp(Made(w, i), "put_item") :
    Made(w, i)[k].key = key /\ Made(w, i)[k].res = "ok"

(* ------------------------------------------------------------------ *)
(* Claims                                                              *)
(* ------------------------------------------------------------------ *)

(* C1: when the same complete and field-valid record is processed twice
   in sequence, its event_uuid is not in the table before the first
   processing and no call made for either fails, the first processing
   returns True (stored) and the second returns False
   (rejected_duplicate) without a put_object or a put_item. *)
C1_Idempotency ==
  \A i, j \in Done(1) :
    ( /\ i < j
      /\ records[1][i] = records[1][j]
      /\ Complete(records[1][i]) /\ FieldValid(records[1][i])
      /\ \A k \in 1..(i - 1) : ~Recorded(1, k, KeyOf(records[1][i]))
      /\ NoCallFailed(Made(1, i)) /\ NoCallFailed(Made(1, j)) )
    => /\ Ret(1, i) /\ Outcome(1, i) = "stored"
       /\ ~Ret(1, j) /\ Outcome(1, j) = "rejected_duplicate"
       /\ ~Wrote(Made(1, j))

(* C1, for the records that enrichment accepts (event_name is a str):
   stored, then rejected_duplicate with no write. *)
C1_IdempotencyOfEnrichable ==
  \A i, j \in Done(1) :
    ( /\ i < j
      /\ records[1][i] = records[1][j]
      /\ Complete(records[1][i]) /\ FieldValid(records[1][i])
      /\ records[1][i].obj.event_name.t = "str"
      /\ \A k \in 1..(i - 1) : ~Recorded(1, k, KeyOf(records[1][i]))
      /\ NoCallFailed(Made(1, i)) /\ NoCallFailed(Made(1, j)) )
    => /\ Ret(1, i) /\ Outcome(1, i) = "stored"
       /\ ~Ret(1, j) /\ Outcome(1, j) = "rejected_duplicate"
       /\ ~Wrote(Made(1, j))

(* C2: a record whose put_object fails makes no put_item call, returns
   False and is not stored; no invocation stands before put_item with a
   failed put_object behind it. *)
C2_NoRecordAfterFailedObjectWrite ==
  /\ \A i \in Done(1) :
       Failed(Made(1, i), "put_object")
       => /\ MadeOp(Made(1, i), "put_item") = {}
          /\ ~Ret(1, i)
          /\ Outcome(1, i) = "error"
  /\ pc[1] = "put_item" => ~Failed(calls[1], "put_object")

C2_Witness ==
  \E i \in Done(1) :
    /\ Failed(Made(1, i), "put_object")
    /\ KeyOf(records[1][i]) \notin table

(* C3: put_object or put_item is called for a record only if the record
   decoded, holds the three required fields, has a created_at that is an
   instance of int, has an event_uuid that int() accepts, and its
   get_item came back without an item; a record that ends
   rejected_incomplete, rejected_invalid or rejected_duplicate made no
   write call. *)
C3_WritesOnlyForAccepted ==
  /\ \A i \in Done(1) :
       /\ Wrote(Made(1, i))
          => /\ Complete(records[1][i]) /\ FieldValid(records[1][i])
             /\ Made(1, i)[1].op = "get_item" /\ Made(1, i)[1].res = "missing"
       /\ Outcome(1, i) \in {"rejected_incomplete", "rejected_invalid",
                             "rejected_duplicate"}
          => ~Wrote(Made(1, i))
  /\ pc[1] \in {"enrich_and_store", "put_item"}
     => LET record == records[1][Len(processed_events[1]) + 1]
        IN  /\ Complete(record) /\ FieldValid(record)
            /\ calls[1][1].op = "get_item" /\ calls[1][1].res = "missing"

C3_Witness ==
  \E i, j \in Done(1) :
    /\ Outcome(1, i) = "stored"
    /\ Outcome(1, j) = "rejected_duplicate"
    /\ \E k \in Done(1) : Outcome(1, k) = "rejected_invalid"

(* C4, as claimed: every complete record starts with a get_item, before
   created_at and event_uuid are checked; when that get_item finds the
   item the record ends rejected_duplicate, and when it raises the record
   ends error. *)
C4_DuplicateCheckBeforeFieldChecks ==
  \A i \in Done(1) :
    Complete(records[1][i])
    => /\ Made(1, i) # <<>>
       /\ Made(1, i)[1].op = "get_item"
       /\ Made(1, i)[1].res = "found" => Outcome(1, i) = "rejected_duplicate"
       /\ Made(1, i)[1].res = "error" => Outcome(1, i) = "error"

(* C4, amended: created_at and event_uuid are checked before get_item is
   called.  A complete record that fails either check makes no call at
   all and ends rejected_invalid (error when int() raises TypeError),
   also when its event_uuid is in the table; get_item is called exactly
   for the complete and field-valid records, with the coerced key, and
   for those an item found ends rejected_duplicate and a get_item that
   raises ends error. *)
C4_FieldChecksBeforeDuplicateCheck ==
  \A i \in Done(1) :
    LET record == records[1][i]
        complete == Complete(record)
        valid == complete /\ FieldValid(record)
        made == Made(1, i)
    IN  /\ complete /\ ~valid
           => /\ made = <<>>
              /\ Outcome(1, i) \in {"rejected_invalid", "error"}
              /\ Outcome(1, i) = "error"
                 <=> /\ record.obj.created_at.t \in {"int", "bool"}
                     /\ PyInt(record.obj.event_uuid).exc = "TypeError"
        /\ made # <<>> <=> valid
        /\ made # <<>>
           => /\ made[1].op = "get_item"
              /\ made[1].key = KeyOf(record)
              /\ made[1].res = "found"
                 => Outcome(1, i) = "rejected_duplicate" /\ Len(made) = 1
              /\ made[1].res = "error"
                 => Outcome(1, i) = "error" /\ Len(made) = 1

(* a record with a str created_at whose event_uuid the table holds ends
   rejected_invalid and was never looked up *)
C4_Witness ==
  \E i \in Done(1) :
    /\ Complete(records[1][i])
    /\ records[1][i].obj.created_at.t = "str"
    /\ PyInt(records[1][i].obj.event_uuid).exc = "none"
    /\ \E k \in 1..(i - 1) : Recorded(1, k, KeyOf(records[1][i]))
    /\ Outcome(1, i) = "rejected_invalid"
    /\ Made(1, i) = <<>>

(* C5: a get_item that raises is not taken for "no item": the record
   makes no further call, returns False and ends error; a put_item that
   raises does not return True: the record is not counted as stored. *)
C5_StoreFailuresSurface ==
  /\ \A i \in Done(1) :
       /\ Failed(Made(1, i), "get_item")
          => /\ Len(Made(1, i)) = 1
             /\ ~Ret(1, i)
             /\ Outcome(1, i) = "error"
       /\ Failed(Made(1, i), "put_item")
          => /\ ~Ret(1, i)
             /\ Outcome(1, i) = "error"
  /\ pc[1] \in {"enrich_and_store", "put_item"} => ~Failed(calls[1], "get_item")
  /\ pc[1] = "returned"
     => response[1].successfully_processed
          = Cardinality({i \in Done(1) : NoCallFailed(Made(1, i)) /\ Ret(1, i)})

C5_Witness ==
  /\ pc[1] = "returned"
  /\ \E i, j \in Done(1) :
       /\ Failed(Made(1, i), "get_item")
       /\ Failed(Made(1, j), "put_item")

(* a record that is complete, field-valid, not in the table at its
   lookup, and whose put_object and put_item succeeded *)
WroteBoth(w, i) ==
  /\ Complete(records[w][i]) /\ FieldValid(records[w][i])
  /\ Made(w, i)[1].res = "missing"
  /\ Succeeded(Made(w, i), "put_object")
  /\ Succeeded(Made(w, i), "put_item")

(* C6: no decode, store or sink failure of a record ends the batch: the
   handler never stops on an exception, while records are left the next
   one can be processed, at return every record of the batch has a
   result, and every record that is complete, field-valid,
   not a duplicate and whose writes succeeded is stored and counted. *)
C6_PartialBatchIsolation ==
  /\ pc[1] # "crashed"
  /\ pc[1] = "loop" /\ Len(processed_events[1]) < Len(records[1])
     => ENABLED Validate(1)
  /\ pc[1] = "returned"
     => /\ Len(results[1]) = Len(records[1])
        /\ Len(processed_events[1]) = Len(records[1])
        /\ \A j \in Done(1) : WroteBoth(1, j) => Ret(1, j) /\ Outcome(1, j) = "stored"
        /\ response[1].successfully_processed
             >= Cardinality({j \in Done(1) : WroteBoth(1, j)})

(* a put_object failure on record 2 of 3, records 1 and 3 stored *)
C6_Witness ==
  /\ pc[1] = "returned"
  /\ Len(records[1]) = 3
  /\ Outcome(1, 1) = "stored"
  /\ Failed(Made(1, 2), "put_object")
  /\ Outcome(1, 3) = "stored"
  /\ response[1].successfully_processed = 2

(* ------------------------------------------------------------------ *)
(* The batch of the metrics example                                    *)
(* ------------------------------------------------------------------ *)

MaxMetricsBatch == 4

MetricsInputs == {UuidMissing, Good7, CreatedAtStr, Good8, Malformed}

MetricsNext ==
  \/ LambdaInvoke(1, Batches(MetricsInputs, MaxMetricsBatch))
  \/ Step(1)

MetricsSpec == Init /\ [][MetricsNext]_vars

(* one incomplete record, one good record, a duplicate of it that comes
   after it, and one record with a str created_at, no call failing *)
IsExampleBatch ==
  /\ Len(records[1]) = 4
  /\ \A i \in Done(1) : NoCallFailed(Made(1, i))
  /\ \E i, j, k, l \in 1..4 :
       /\ {i, j, k, l} = 1..4
       /\ j < k
       /\ records[1][i] = UuidMissing
       /\ records[1][j] = Good7
       /\ records[1][k] = Good7
       /\ records[1][l] = CreatedAtStr

(* C7: the returned summary has total_events = the number of records,
   successfully_processed = the number of records that ended stored, and
   success_rate = successfully_processed / total_events * 100, which is
   0 for an empty batch and never a division by zero; the batch of one
   incomplete record, one duplicate of a stored record, one record with
   an invalid created_at and one good record gives 4, 1 and 25. *)
C7_Metrics ==
  pc[1] = "returned"
  => /\ response[1].total_events = Len(records[1])
     /\ response[1].successfully_processed
          = Cardinality({i \in Done(1) : Outcome(1, i) = "stored"})
     /\ response[1].success_rate.den # 0
     /\ response[1].success_rate.num * response[1].total_events
          = response[1].successfully_processed * 100 * response[1].success_rate.den
     /\ Len(records[1]) = 0 => response[1].success_rate.num = 0
     /\ IsExampleBatch
        => /\ response[1].total_events = 4
           /\ response[1].successfully_processed = 1
           /\ response[1].success_rate.num = 25 * response[1].success_rate.den

C7_Witness ==
  /\ pc[1] = "returned"
  /\ IsExampleBatch
  /\ response[1].success_rate.num = 25 * response[1].success_rate.den

(* ------------------------------------------------------------------ *)
(* Termination of lambda_handler                                       *)
(* ------------------------------------------------------------------ *)

MaxLiveBatch == 2

LiveNext ==
  \/ LambdaInvoke(1, Batches(Inputs, MaxLiveBatch))
  \/ Step(1)

(* an invocation that was started keeps running: every step of
   lambda_handler is a statement of one sequential Python function *)
LiveSpec == Init /\ [][LiveNext]_vars /\ WF_vars(Step(1))

(* C8: an invocation of lambda_handler with any batch, under any pattern
   of decode, validation, store and sink failures, returns, and what it
   returns has status "complete". *)
C8_ReturnsComplete ==
  (pc[1] # "idle") ~> (pc[1] = "returned" /\ response[1].status = "complete")

(* returned "complete" although no record of the batch was stored: one
   did not decode and one met a failing store or sink call *)
C8_Witness ==
  /\ pc[1] = "returned"
  /\ response[1].status = "complete"
  /\ response[1].total_events = 2
  /\ response[1].successfully_processed = 0
  /\ \E i \in Done(1) : ~Decodes(records[1][i])
  /\ \E i \in Done(1) : ~NoCallFailed(Made(1, i))

(* ------------------------------------------------------------------ *)
(* Two invocations on the same table                                   *)
(* ------------------------------------------------------------------ *)

(* the results of both invocations *)
AllDone == {x \in Workers \X (1..MaxConcBatch) : x[2] \in Done(x[1])}

StoredKey(w, i, key) == Outcome(w, i) = "stored" /\ Recorded(w, i, key)

(* two records with one canonical event_uuid both ended stored *)
StoredTwice ==
  \E x, y \in AllDone :
    /\ x # y
    /\ \E key \in table : StoredKey(x[1], x[2], key) /\ StoredKey(y[1], y[2], key)

(* C9: two records with the same event_uuid both end stored only if their
   processings overlapped, each having got "no item" from get_item before
   the other called put_item (overlapped); when one processing ends
   before the other starts, the second is never stored. *)
C9_StoredTwiceOnlyWhenOverlapped == StoredTwice => overlapped

(* both invocations stored the same key *)
C9_Witness ==
  /\ overlapped
  /\ \E key \in table :
       /\ \E i \in Done(1) : StoredKey(1, i, key)
       /\ \E j \in Done(2) : StoredKey(2, j, key)

(* ------------------------------------------------------------------ *)
(* Redelivery after a failed put_item                                  *)
(* ------------------------------------------------------------------ *)

(* record i wrote its object and then failed to record its key *)
WroteButNotRecorded(w, i) ==
  /\ Succeeded(Made(w, i), "put_object")
  /\ Failed(Made(w, i), "put_item")

ObjectKey(made) == made[CHOOSE k \in MadeOp(made, "put_object") : TRUE].key

(* the objects of the bucket that hold the event of record r *)
ObjectsOf(r) ==
  {k \in DOMAIN bucket :
     /\ bucket[k].event_uuid = IntV(PyInt(r.obj.event_uuid).val)
     /\ bucket[k].event_name = r.obj.event_name
     /\ bucket[k].created_at = r.obj.created_at}

(* C10: when a record's put_object succeeded and its put_item failed,
   a later delivery of the same record (no record with that event_uuid
   stored in between) is not rejected as a duplicate: its get_item finds
   no item, its put_object goes to the object key of the first attempt,
   and the bucket holds exactly one object for the event. *)
C10_RedeliveryRewritesSameObject ==
  \A i, j \in Done(1) :
    ( /\ i < j
      /\ records[1][i] = records[1][j]
      /\ WroteButNotRecorded(1, i)
      /\ \A k \in 1..(j - 1) : ~Recorded(1, k, KeyOf(records[1][i])) )
    => /\ Outcome(1, j) # "rejected_duplicate"
       /\ Made(1, j)[1].res \in {"missing", "error"}
       /\ MadeOp(Made(1, j), "put_object") # {}
          => ObjectKey(Made(1, j)) = ObjectKey(Made(1, i))
       /\ NoCallFailed(Made(1, j)) => Outcome(1, j) = "stored"
       /\ Cardinality(ObjectsOf(records[1][i])) = 1

C10_Witness ==
  \E i, j \in Done(1) :
    /\ i < j
    /\ records[1][i] = records[1][j]
    /\ WroteButNotRecorded(1, i)
    /\ Outcome(1, j) = "stored"
    /\ Cardinality(DOMAIN bucket) = 1

(* ------------------------------------------------------------------ *)
(* One invocation after the other on the same table                    *)
(* ------------------------------------------------------------------ *)

MaxSeqBatch == 1

(* the next batch is delivered once the invocation before it returned *)
LambdaInvokeNext(batches) ==
  /\ pc[1] = "returned"
  /\ LambdaInvoke(2, batches)

SeqNext ==
  \/ LambdaInvoke(1, Batches(ConcInputs, MaxSeqBatch))
  \/ LambdaInvokeNext(Batches(ConcInputs, MaxSeqBatch))
  \/ \E w \in Workers : Step(w)

SeqSpec == Init /\ [][SeqNext]_vars

(* the finished records of all invocations, as <<invocation, position>> *)
Finished == UNION {{<<w, i>> : i \in Done(w)} : w \in Workers}

(* C11: with one invocation after the other, no two records ever end
   stored with a put_item of the same canonical event_uuid, and no step
   removes a key from the table. *)
C11_RecordedOncePerKey ==
  /\ [](\A x, y \in Finished :
          \A key \in table :
            StoredKey(x[1], x[2], key) /\ StoredKey(y[1], y[2], key) => x = y)
  /\ [][table \subseteq table']_vars

(* the second batch redelivers, as "007", the event 7 that the first
   batch stored, and is turned down as a duplicate: the table holds the
   one key *)
C11_Witness ==
  /\ pc[2] = "returned"
  /\ table = {<<"7">>}
  /\ \E i \in Done(1) : records[1][i] = Good7 /\ Outcome(1, i) = "stored"
  /\ \E j \in Done(2) : records[2][j] = Good007 /\ Outcome(2, j) = "rejected_duplicate"

(* ------------------------------------------------------------------ *)
(* event_uuid values that int() does not accept                        *)
(* ------------------------------------------------------------------ *)

(* the record passed lines 49-55 and reached int(payload['event_uuid']) *)
ReachesCoercion(record) ==
  Complete(record) /\ IsInstanceInt(record.obj.created_at)

(* C12, as claimed: a record whose event_uuid int() does not accept ends
   rejected_invalid, validate_event having returned False with no
   exception escaping it; a record whose event_uuid int() accepts goes on
   with event_uuid overwritten by the int. *)
C12_UncoercibleIsRejectedInvalid ==
  /\ \A i \in Done(1) :
       ReachesCoercion(records[1][i]) /\ PyInt(records[1][i].obj.event_uuid).exc # "none"
       => /\ validate_event(records[1][i].obj).exc = "none"
          /\ ~validate_event(records[1][i].obj).ret
          /\ Outcome(1, i) = "rejected_invalid"
  /\ pc[1] \in {"check_duplicate", "enrich_and_store", "put_item"}
     => LET record == records[1][Len(processed_events[1]) + 1]
        IN  payload[1].event_uuid = IntV(PyInt(record.obj.event_uuid).val)

(* C12, for the values on which int() raises ValueError (a str that is
   no integer literal): rejected_invalid with no call made; and the
   overwriting of a coercible event_uuid. *)
C12_ValueErrorIsRejectedInvalid ==
  /\ \A i \in Done(1) :
       ReachesCoercion(records[1][i])
         /\ PyInt(records[1][i].obj.event_uuid).exc = "ValueError"
       => /\ validate_event(records[1][i].obj).exc = "none"
          /\ Outcome(1, i) = "rejected_invalid"
          /\ Made(1, i) = <<>>
  /\ pc[1] \in {"check_duplicate", "enrich_and_store", "put_item"}
     => LET record == records[1][Len(processed_events[1]) + 1]
        IN  payload[1].event_uuid = IntV(PyInt(record.obj.event_uuid).val)

(* ------------------------------------------------------------------ *)
(* Payloads with missing keys and with falsy values                    *)
(* ------------------------------------------------------------------ *)

MaxFieldsBatch == 2

(* every payload over: key missing, key present with "" or 0, key
   present with an ordinary or an invalid value *)
FieldsInputs ==
  {Json(Payload(name, created, uuid)) :
     name \in {Absent, StrV(<<>>), OrderRefund},
     created \in {Absent, IntV(0), StrV(<<"1">>)},
     uuid \in {Absent, IntV(0), StrV(<<>>), NoneV}}

FieldsNext ==
  \/ LambdaInvoke(1, Batches(FieldsInputs, MaxFieldsBatch))
  \/ Step(1)

FieldsSpec == Init /\ [][FieldsNext]_vars

(* the dict lacks one of the three keys *)
LacksKey(record) ==
  \E i \in 1..Len(required_fields) : record.obj[required_fields[i]] = Absent

(* C13: a decoded payload that lacks event_name, created_at or
   event_uuid ends rejected_incomplete (never rejected_invalid or error,
   whatever its other fields hold) with no get_item, put_object or
   put_item; and only such a payload ends rejected_incomplete: a key
   present with "" or 0 is not missing. *)
C13_IncompleteRejectedFirst ==
  \A i \in Done(1) :
    /\ Decodes(records[1][i]) /\ LacksKey(records[1][i])
       => /\ Outcome(1, i) = "rejected_incomplete"
          /\ ~Ret(1, i)
          /\ Made(1, i) = <<>>
    /\ Outcome(1, i) = "rejected_incomplete" => LacksKey(records[1][i])

(* {"event_name": "", "created_at": 0, "event_uuid": 0} is stored, and a
   payload without event_name whose event_uuid is null and whose
   created_at is a str is rejected as incomplete, the table and the
   bucket holding only the first *)
C13_Witness ==
  \E i, j \in Done(1) :
    /\ records[1][i] = Json(Payload(StrV(<<>>), IntV(0), IntV(0)))
    /\ Outcome(1, i) = "stored"
    /\ records[1][j] = Json(Payload(Absent, StrV(<<"1">>), NoneV))
    /\ Outcome(1, j) = "rejected_incomplete"
    /\ table = {<<"0">>}
    /\ Cardinality(DOMAIN bucket) = 1

(* ------------------------------------------------------------------ *)
(* event_name values: colons and slashes                               *)
(* ------------------------------------------------------------------ *)

MaxNamesBatch == 2

(* "a", "a:b", "a:b:c", "a/b:c" and "a:b/c" *)
Names ==
  {<<"a">>, <<"a", ":", "b">>, <<"a", ":", "b", ":", "c">>,
   <<"a", "/", "b", ":", "c">>, <<"a", ":", "b", "/", "c">>}

NamesInputs ==
  {Json(Payload(StrV(name), At, uuid)) : name \in Names, uuid \in {IntV(7), IntV(8)}}

NamesNext ==
  \/ LambdaInvoke(1, Batches(NamesInputs, MaxNamesBatch))
  \/ Step(1)

NamesSpec == Init /\ [][NamesNext]_vars

(* C14, as claimed: every object written holds event_type = the text of
   event_name before its first colon and event_subtype = all the text
   after that colon, further colons included; with no colon in
   event_name, event_type is event_name and event_subtype is None. *)
C14_SplitOnFirstColon ==
  \A key \in DOMAIN bucket :
    LET name == bucket[key].event_name.s
        colons == {k \in 1..Len(name) : name[k] = ":"}
        first == CHOOSE k \in colons : \A j \in colons : k <= j
    IN  IF colons = {}
        THEN /\ bucket[key].event_type = StrV(name)
             /\ bucket[key].event_subtype = NoneV
        ELSE /\ bucket[key].event_type = StrV(SubSeq(name, 1, first - 1))
             /\ bucket[key].event_subtype = StrV(SubSeq(name, first + 1, Len(name)))

(* C14, for what line 98 does: event_subtype is the text between the
   first colon and the second (or the end), so the claim holds for an
   event_name with at most one colon and the rest of a longer name is
   dropped. *)
C14_SubtypeIsSecondPart ==
  \A key \in DOMAIN bucket :
    LET name == bucket[key].event_name.s
        colons == {k \in 1..Len(name) : name[k] = ":"}
        first == CHOOSE k \in colons : \A j \in colons : k <= j
        later == {k \in colons : k > first}
        second == IF later = {} THEN Len(name) + 1
                  ELSE CHOOSE k \in later : \A j \in later : k <= j
    IN  IF colons = {}
        THEN /\ bucket[key].event_type = StrV(name)
             /\ bucket[key].event_subtype = NoneV
        ELSE /\ bucket[key].event_type = StrV(SubSeq(name, 1, first - 1))
             /\ bucket[key].event_subtype = StrV(SubSeq(name, first + 1, second - 1))

(* record i called put_object *)
PutsObject(w, i) == MadeOp(Made(w, i), "put_object") # {}

(* C15: two records whose coerced event_uuid differ never call
   put_object with the same key, whatever their event_name; and no
   put_object replaces an object of the bucket by the payload of another
   event_uuid. *)
C15_PathInjectiveInUuid ==
  /\ [](\A i, j \in Done(1) :
          ( /\ PutsObject(1, i) /\ PutsObject(1, j)
            /\ KeyOf(records[1][i]) # KeyOf(records[1][j]) )
          => ObjectKey(Made(1, i)) # ObjectKey(Made(1, j)))
  /\ [][\A key \in DOMAIN bucket :
          bucket'[key].event_uuid = bucket[key].event_uuid]_vars

(* "a/b:c" with event_uuid 7 and "a:b/c" with event_uuid 8, whose paths
   differ in the file name only, are both in the bucket *)
C15_Witness ==
  /\ Len(results[1]) = 2
  /\ records[1][1] = Json(Payload(StrV(<<"a", "/", "b", ":", "c">>), At, IntV(7)))
  /\ records[1][2] = Json(Payload(StrV(<<"a", ":", "b", "/", "c">>), At, IntV(8)))
  /\ Outcome(1, 1) = "stored" /\ Outcome(1, 2) = "stored"
  /\ Cardinality(DOMAIN bucket) = 2

(* ------------------------------------------------------------------ *)
(* Recorded implies written                                            *)
(* ------------------------------------------------------------------ *)

(* the bucket holds an object of the event with this table key *)
HasObject(key) == \E k \in DOMAIN bucket : RecordKey(bucket[k]) = key

(* in these calls, a put_object that succeeded comes before every put_item *)
ObjectBeforeItem(made) ==
  \A k \in MadeOp(made, "put_item") :
    \E j \in MadeOp(made, "put_object") : j < k /\ made[j].res = "ok"

(* C16: with two invocations interleaved and any call failing, every key
   in the table has an object of its event in the bucket, every put_item
   was made after a put_object of the same record that succeeded, and an
   invocation about to call put_item has written its object; an object
   whose key is not in the table belongs to a record that is between
   put_object and put_item or whose put_item failed. *)
C16_RecordedImpliesWritten ==
  /\ \A key \in table : HasObject(key)
  /\ \A x \in Finished : ObjectBeforeItem(Made(x[1], x[2]))
  /\ \A w \in Workers :
       pc[w] = "put_item"
       => /\ Succeeded(calls[w], "put_object")
          /\ HasObject(RecordKey(payload[w]))
  /\ \A k \in DOMAIN bucket :
       RecordKey(bucket[k]) \notin table
       => \/ \E w \in Workers : pc[w] = "put_item" /\ RecordKey(payload[w]) = RecordKey(bucket[k])
          \/ \E x \in Finished :
               /\ WroteButNotRecorded(x[1], x[2])
               /\ ObjectKey(Made(x[1], x[2])) = k

(* one invocation recorded key 7 while the other wrote the object of key
   8 and failed to record it: the bucket holds two objects, the table
   one key *)
C16_Witness ==
  /\ table = {<<"7">>}
  /\ Cardinality(DOMAIN bucket) = 2
  /\ \E x \in Finished : WroteButNotRecorded(x[1], x[2])
  /\ \E x \in Finished : StoredKey(x[1], x[2], <<"7">>)

(* ------------------------------------------------------------------ *)
(* One key for the lookup and for the record                           *)
(* ------------------------------------------------------------------ *)

(* C17: the key of a record's get_item and the key of its put_item are
   both str(int(event_uuid)); so a record whose event_uuid has the same
   int value as one recorded before it, whether either was given as 7 or
   as "007", gets "found" from a get_item that succeeds, ends
   rejected_duplicate and writes nothing. *)
C17_OneCanonicalKey ==
  \A i \in Done(1) :
    /\ \A k \in MadeOp(Made(1, i), "get_item") \cup MadeOp(Made(1, i), "put_item") :
         Made(1, i)[k].key = KeyOf(records[1][i])
    /\ \A j \in 1..(i - 1) :
         ( /\ Complete(records[1][i]) /\ FieldValid(records[1][i])
           /\ Complete(records[1][j]) /\ FieldValid(records[1][j])
           /\ PyInt(records[1][i].obj.event_uuid).val
                = PyInt(records[1][j].obj.event_uuid).val
           /\ Outcome(1, j) = "stored" )
         => /\ Made(1, i)[1].res \in {"found", "error"}
            /\ Made(1, i)[1].res = "found" => Outcome(1, i) = "rejected_duplicate"
            /\ ~Wrote(Made(1, i))

(* "007" was stored under the key "7", and the 7 that came after it was
   turned down as its duplicate *)
C17_Witness ==
  \E j, i \in Done(1) :
    /\ j < i
    /\ records[1][j] = Good007 /\ Outcome(1, j) = "stored"
    /\ records[1][i] = Good7 /\ Outcome(1, i) = "rejected_duplicate"
    /\ table = {<<"7">>}

(* ------------------------------------------------------------------ *)
(* The count of a batch as a function of its set of records            *)
(* ------------------------------------------------------------------ *)

(* the invocation returned and none of its boto3 calls failed *)
ReturnedWithoutFailure ==
  /\ pc[1] = "returned"
  /\ \A i \in Done(1) : NoCallFailed(Made(1, i))

(* the canonical keys of the batch's complete and field-valid records *)
ValidKeys ==
  {KeyOf(records[1][i]) :
     i \in {j \in 1..Len(records[1]) :
              Complete(records[1][j]) /\ FieldValid(records[1][j])}}

(* C18, as claimed: a batch processed on an empty table with no call
   failing returns successfully_processed = the number of distinct
   canonical event_uuid among its complete and field-valid records, and
   leaves exactly those keys in the table: both depend on the set of
   records only, not on their order. *)
C18_CountIsDistinctValidKeys ==
  ReturnedWithoutFailure
  => /\ response[1].successfully_processed = Cardinality(ValidKeys)
     /\ table = ValidKeys

(* C18, for the records that enrichment accepts: the count and the table
   are those of the complete, field-valid records whose event_name is a
   str. *)
C18_CountIsDistinctEnrichableKeys ==
  ReturnedWithoutFailure
  => LET keys == {KeyOf(records[1][i]) :
                    i \in {j \in 1..Len(records[1]) :
                             /\ Complete(records[1][j]) /\ FieldValid(records[1][j])
                             /\ records[1][j].obj.event_name.t = "str"}}
     IN  /\ response[1].successfully_processed = Cardinality(keys)
         /\ table = keys

====
